---- MODULE Spec2Model ----
(***************************************************************************)
(* The interaction state machine of vizia-chess (src/lib.rs): the Chess    *)
(* view owns a board, the sprite array `images`, a selection, a check      *)
(* indicator and the flip setting, and handles three events: TileClicked,  *)
(* ToggleFlipping and Reset.  The board is a value of the `chess` crate;   *)
(* the operations of that crate which lib.rs calls (side_to_move,          *)
(* color_combined, legal, make_move_new, checkers, king_square, to_string) *)
(* are modelled here by the rules of chess on a 64-square piece map.       *)
(*                                                                         *)
(* Squares are 0..63, 0 = a1, 7 = h1, 56 = a8, 63 = h8 (chess::Square).    *)
(* Pieces are the FEN letters, "" is an empty square.                      *)
(***************************************************************************)
EXTENDS Integers, Sequences, FiniteSets, TLC

(* ---------------------------- bounds ----------------------------------- *)

\* moves played since the last Reset that the model explores
MaxPlies == 3

\* how many entries of TileOrder the user clicks on
MaxTiles == 12

(* --------------------------- Option<T> --------------------------------- *)

None == <<>>

Some(v) == <<v>>

(* ------------------------ the chess crate ------------------------------ *)

Squares == 0..63

File(s) == s % 8

Rank(s) == s \div 8

Abs(n) == IF n < 0 THEN -n ELSE n

Sgn(n) == IF n < 0 THEN -1 ELSE IF n > 0 THEN 1 ELSE 0

Max2(a, b) == IF a >= b THEN a ELSE b

WhitePieces == {"P", "N", "B", "R", "Q", "K"}

BlackPieces == {"p", "n", "b", "r", "q", "k"}

ColorOf(p) == IF p \in WhitePieces THEN "White"
              ELSE IF p \in BlackPieces THEN "Black" ELSE "Empty"

Other(c) == IF c = "White" THEN "Black" ELSE "White"

\* the piece kind of a FEN letter, as the white letter
Kind(p) == CASE p \in {"P", "p"} -> "P"
             [] p \in {"N", "n"} -> "N"
             [] p \in {"B", "b"} -> "B"
             [] p \in {"R", "r"} -> "R"
             [] p \in {"Q", "q"} -> "Q"
             [] p \in {"K", "k"} -> "K"
             [] OTHER -> ""

Digits == <<"1", "2", "3", "4", "5", "6", "7", "8">>

BackRank == <<"R", "N", "B", "Q", "K", "B", "N", "R">>

LowerOf(p) == CASE p = "P" -> "p" [] p = "N" -> "n" [] p = "B" -> "b"
                [] p = "R" -> "r" [] p = "Q" -> "q" [] p = "K" -> "k"

\* Board::default(): the standard starting position, White to move
BoardDefault ==
    [pieces |-> [s \in Squares |->
                    CASE Rank(s) = 0 -> BackRank[File(s) + 1]
                      [] Rank(s) = 1 -> "P"
                      [] Rank(s) = 6 -> "p"
                      [] Rank(s) = 7 -> LowerOf(BackRank[File(s) + 1])
                      [] OTHER -> ""],
     stm |-> "White",
     castle |-> {"K", "Q", "k", "q"},
     ep |-> -1]

side_to_move(b) == b.stm

\* the set of squares holding a piece of colour c (a BitBoard)
color_combined(b, c) == {s \in Squares : ColorOf(b.pieces[s]) = c}

\* the squares strictly between two squares on a common line
Between(s, t) ==
    LET df == File(t) - File(s)
        dr == Rank(t) - Rank(s)
        n == Max2(Abs(df), Abs(dr))
        step == 8 * Sgn(dr) + Sgn(df)
    IN {s + k * step : k \in 1..(n - 1)}

\* the piece standing on s attacks square t on the piece map pc
Attacks(pc, s, t) ==
    LET p == pc[s]
        df == File(t) - File(s)
        dr == Rank(t) - Rank(s)
        clear == \A m \in Between(s, t) : pc[m] = ""
        diag == Abs(df) = Abs(dr) /\ df # 0
        line == (df = 0) # (dr = 0)
    IN CASE p = "P" -> dr = 1 /\ Abs(df) = 1
         [] p = "p" -> dr = -1 /\ Abs(df) = 1
         [] Kind(p) = "N" -> {Abs(df), Abs(dr)} = {1, 2}
         [] Kind(p) = "K" -> Max2(Abs(df), Abs(dr)) = 1
         [] Kind(p) = "B" -> diag /\ clear
         [] Kind(p) = "R" -> line /\ clear
         [] Kind(p) = "Q" -> (diag \/ line) /\ clear
         [] OTHER -> FALSE

\* the squares from which a piece of colour c attacks t
Attackers(pc, t, c) == {s \in Squares : ColorOf(pc[s]) = c /\ Attacks(pc, s, t)}

king_square(b, c) ==
    CHOOSE s \in Squares : b.pieces[s] = (IF c = "White" THEN "K" ELSE "k")

\* the pieces giving check to the side to move (a BitBoard)
checkers(b) == Attackers(b.pieces, king_square(b, b.stm), Other(b.stm))

Forward(c) == IF c = "White" THEN 1 ELSE -1

IsEnPassant(b, from, to) ==
    /\ Kind(b.pieces[from]) = "P"
    /\ to = b.ep
    /\ File(to) # File(from)

IsCastle(b, from, to) ==
    Kind(b.pieces[from]) = "K" /\ Abs(File(to) - File(from)) = 2

\* the castling rights a move from `from` to `to` takes away
RightsLost(from, to) ==
    UNION {IF 4 \in {from, to} THEN {"K", "Q"} ELSE {},
           IF 60 \in {from, to} THEN {"k", "q"} ELSE {},
           IF 7 \in {from, to} THEN {"K"} ELSE {},
           IF 0 \in {from, to} THEN {"Q"} ELSE {},
           IF 63 \in {from, to} THEN {"k"} ELSE {},
           IF 56 \in {from, to} THEN {"q"} ELSE {}}

\* Board::make_move_new with promotion None
make_move_new(b, from, to) ==
    LET p == b.pieces[from]
        c == b.stm
        epTaken == IF IsEnPassant(b, from, to) THEN to - 8 * Forward(c) ELSE -1
        castles == IsCastle(b, from, to)
        rookFrom == IF File(to) = 6 THEN to + 1 ELSE to - 2
        rookTo == IF File(to) = 6 THEN to - 1 ELSE to + 1
        double == Kind(p) = "P" /\ Abs(to - from) = 16
        enemyPawn == IF c = "White" THEN "p" ELSE "P"
        capturable == \E n \in {to - 1, to + 1} :
                          /\ n \in Squares
                          /\ Rank(n) = Rank(to)
                          /\ b.pieces[n] = enemyPawn
    IN [pieces |-> [s \in Squares |->
                      CASE s = to -> p
                        [] s = from -> ""
                        [] s = epTaken -> ""
                        [] castles /\ s = rookFrom -> ""
                        [] castles /\ s = rookTo -> b.pieces[rookFrom]
                        [] OTHER -> b.pieces[s]],
        stm |-> Other(c),
        castle |-> b.castle \ RightsLost(from, to),
        ep |-> IF double /\ capturable THEN from + 8 * Forward(c) ELSE -1]

\* the move obeys the movement rule of its piece (the king's safety aside)
PseudoLegal(b, from, to) ==
    LET pc == b.pieces
        p == pc[from]
        c == b.stm
        fwd == Forward(c)
        df == File(to) - File(from)
        dr == Rank(to) - Rank(from)
        startRank == IF c = "White" THEN 1 ELSE 6
        lastRank == IF c = "White" THEN 7 ELSE 0
        home == IF c = "White" THEN 4 ELSE 60
        kSide == IF c = "White" THEN "K" ELSE "k"
        qSide == IF c = "White" THEN "Q" ELSE "q"
        safe(S) == \A s \in S : Attackers(pc, s, Other(c)) = {}
    IN /\ ColorOf(p) = c
       /\ ColorOf(pc[to]) # c
       /\ CASE Kind(p) = "P" ->
                 \* a pawn reaching the last rank is generated only with a
                 \* promotion piece, so with promotion None it is no move
                 /\ Rank(to) # lastRank
                 /\ \/ df = 0 /\ dr = fwd /\ pc[to] = ""
                    \/ /\ df = 0 /\ dr = 2 * fwd /\ Rank(from) = startRank
                       /\ pc[to] = "" /\ pc[from + 8 * fwd] = ""
                    \/ /\ Abs(df) = 1 /\ dr = fwd
                       /\ (ColorOf(pc[to]) = Other(c) \/ to = b.ep)
            [] Kind(p) = "K" ->
                 \/ Attacks(pc, from, to)
                 \/ /\ from = home /\ to = home + 2 /\ kSide \in b.castle
                    /\ pc[home + 1] = "" /\ pc[home + 2] = ""
                    /\ safe({home, home + 1, home + 2})
                 \/ /\ from = home /\ to = home - 2 /\ qSide \in b.castle
                    /\ pc[home - 1] = "" /\ pc[home - 2] = "" /\ pc[home - 3] = ""
                    /\ safe({home, home - 1, home - 2})
            [] OTHER -> Attacks(pc, from, to)

\* Board::legal for the move (from, to, None): it is one of the legal moves,
\* all of which are between squares of the board
legal(b, from, to) ==
    /\ from \in Squares /\ to \in Squares
    /\ from # to
    /\ PseudoLegal(b, from, to)
    /\ LET after == make_move_new(b, from, to)
       IN Attackers(after.pieces, king_square(after, b.stm), after.stm) = {}

\* the piece placement field of the FEN string, one character per entry:
\* the files a..h of rank r from file f on, `run` empty squares pending
RECURSIVE FenRank(_, _, _, _)
FenRank(pc, r, f, run) ==
    LET flush == IF run > 0 THEN <<Digits[run]>> ELSE <<>>
    IN IF f = 8 THEN flush
       ELSE IF pc[8 * r + f] = "" THEN FenRank(pc, r, f + 1, run + 1)
       ELSE flush \o <<pc[8 * r + f]>> \o FenRank(pc, r, f + 1, 0)

\* ranks 8 down to r + 1, separated by "/"
RECURSIVE FenPlacement(_, _)
FenPlacement(pc, r) ==
    IF r = 0 THEN FenRank(pc, 0, 0, 0)
    ELSE FenRank(pc, r, 0, 0) \o <<"/">> \o FenPlacement(pc, r - 1)

\* Board::to_string(): the whitespace-separated fields of the FEN string
to_string(b) ==
    <<FenPlacement(b.pieces, 7),
      <<IF b.stm = "White" THEN "w" ELSE "b">>>>

(* -------------------------- get_paths_from_pos -------------------------- *)

to_digit(c) == CHOOSE n \in 1..8 : Digits[n] = c

\* flat_map over the characters: a digit becomes that many empty strings
RECURSIVE FlatMap(_)
FlatMap(chars) ==
    IF chars = <<>> THEN <<>>
    ELSE LET c == Head(chars)
         IN (IF c \in {Digits[n] : n \in 1..8}
             THEN [i \in 1..to_digit(c) |-> ""]
             ELSE <<c>>) \o FlatMap(Tail(chars))

\* images[i] of the Rust array is element i + 1 of the sequence
get_paths_from_pos(b) ==
    FlatMap(SelectSeq(Head(to_string(b)), LAMBDA c : c # "/"))

(* ------------------------------- Chess ---------------------------------- *)

\* board, images, selected, on_check, should_flip: the fields of Chess.
\* plies counts the moves made since the last Reset; last is the event
\* handled last, the branch of the handler it took and the event handled
\* before it; before is the value of the fields when the handler of the
\* last event was entered.
VARIABLES board, images, selected, on_check, should_flip, plies, last, before

vars == <<board, images, selected, on_check, should_flip, plies, last, before>>

Black == "Black"

\* the tiles the user presses, as (x, y) of the loops of Chess::new,
\* y = 0 the top row: e2 e4 f7 f5 d1 h5 and their images under 63 - p,
\* then g6 d8
TileOrder ==
    <<<<4, 6>>, <<4, 4>>, <<5, 1>>, <<5, 3>>, <<3, 7>>, <<7, 3>>,
      <<3, 1>>, <<3, 3>>, <<2, 6>>, <<2, 4>>, <<4, 0>>, <<0, 4>>,
      <<6, 2>>, <<3, 0>>>>

Tiles == {TileOrder[i] : i \in 1..(IF MaxTiles < Len(TileOrder)
                                   THEN MaxTiles ELSE Len(TileOrder))}

on_press_NoRankFlip(x, y) == y * 8 + x

\* the position a tile emits in on_press
on_press(x, y) == (7 - y) * 8 + x

\* `pos as u8`: the low eight bits of the i32
as_u8(n) == n % 256

\* unsafe Square::new(sq): the square with index sq, unchecked
Square_new(sq) == sq

\* BitBoard::from_square is 1u64 << sq: the shift overflows for sq >= 64,
\* which panics in a build with overflow checks
shift_overflows(sq) == sq >= 64

\* BitBoard::from_square: the bit of sq, the shift amount taken modulo 64
\* (the result without overflow checks; for sq < 64 the bit of sq)
from_square(sq) == {sq % 64}

\* BitBoard::to_square: the lowest square of the bitboard
to_square(bb) == CHOOSE s \in bb : \A t \in bb : s <= t

DecodePos_OffByOne(pos) ==
    IF should_flip /\ side_to_move(board) = "Black" THEN 64 - pos ELSE pos

DecodePos_IgnoresSide(pos) == IF should_flip THEN 63 - pos ELSE pos

\* the decoding of a clicked position at the head of TileClicked
DecodePos(pos) ==
    IF should_flip /\ side_to_move(board) = Black THEN 63 - pos ELSE pos

update_board_images_NeverReversed(b, sf) == get_paths_from_pos(b)

\* update_board: the sprite array for board b under flip setting sf
update_board_images(b, sf) ==
    LET paths == get_paths_from_pos(b)
    IN IF sf /\ side_to_move(b) = Black
       THEN [i \in 1..Len(paths) |-> paths[Len(paths) + 1 - i]]
       ELSE paths

\* update_board: the check indicator for board b under flip setting sf
update_board_on_check(b, sf) ==
    IF checkers(b) # {}
    THEN Some(<<king_square(b, side_to_move(b)),
                sf /\ side_to_move(b) = Black>>)
    ELSE None

\* an event record: the event, its position (-1 when it carries none), the
\* branch of the handler it takes, and the event handled just before it
Ev(e, p, br) == [ev |-> e, pos |-> p, branch |-> br, prior |-> last.ev]

\* the fields of Chess
Snapshot == [board |-> board, images |-> images, selected |-> selected,
             on_check |-> on_check, should_flip |-> should_flip]

\* Chess::new
Init ==
    /\ board = BoardDefault
    /\ images = get_paths_from_pos(BoardDefault)
    /\ selected = None
    /\ on_check = None
    /\ should_flip = TRUE
    /\ plies = 0
    /\ last = [ev |-> "new", pos |-> -1, branch |-> "new", prior |-> "new"]
    /\ before = [board |-> BoardDefault,
                 images |-> get_paths_from_pos(BoardDefault),
                 selected |-> None, on_check |-> None, should_flip |-> TRUE]

\* TileClicked, a selection exists and the click is on its square
Deselect(raw) ==
    /\ selected' = None
    /\ last' = Ev("TileClicked", raw, "deselect")
    /\ UNCHANGED <<board, images, on_check, should_flip, plies>>

Reselect_KeepsOld(raw, pos, flipped) ==
    /\ last' = Ev("TileClicked", raw, "reselect")
    /\ UNCHANGED <<board, images, selected, on_check, should_flip, plies>>

Reselect_RawSnapshot(raw, pos, flipped) ==
    /\ selected' = Some(<<pos, selected[1][2]>>)
    /\ last' = Ev("TileClicked", raw, "reselect")
    /\ UNCHANGED <<board, images, on_check, should_flip, plies>>

\* TileClicked, a selection exists and the click is on another own piece
Reselect(raw, pos, flipped) ==
    /\ selected' = Some(<<pos, flipped>>)
    /\ last' = Ev("TileClicked", raw, "reselect")
    /\ UNCHANGED <<board, images, on_check, should_flip, plies>>

MakeMove_KeepsSelection(raw, selected_pos, pos) ==
    /\ plies < MaxPlies
    /\ board' = make_move_new(board, selected_pos, pos)
    /\ images' = update_board_images(board', should_flip)
    /\ on_check' = update_board_on_check(board', should_flip)
    /\ plies' = plies + 1
    /\ last' = Ev("TileClicked", raw, "move")
    /\ UNCHANGED <<selected, should_flip>>

\* TileClicked, the move from the selection to the click is legal
MakeMove(raw, selected_pos, pos) ==
    /\ plies < MaxPlies
    /\ board' = make_move_new(board, selected_pos, pos)
    /\ images' = update_board_images(board', should_flip)
    /\ on_check' = update_board_on_check(board', should_flip)
    /\ selected' = None
    /\ plies' = plies + 1
    /\ last' = Ev("TileClicked", raw, "move")
    /\ UNCHANGED should_flip

IllegalMove_ClearsSelection(raw, selected_pos, pos) ==
    /\ selected' = None
    /\ last' = Ev("TileClicked", raw, "illegal")
    /\ UNCHANGED <<board, images, on_check, should_flip, plies>>

IllegalMove_Unvalidated(raw, selected_pos, pos) ==
    /\ plies < MaxPlies
    /\ board' = make_move_new(board, selected_pos, pos)
    /\ images' = images
    /\ on_check' = on_check
    /\ selected' = None
    /\ plies' = plies + 1
    /\ last' = Ev("TileClicked", raw, "illegal")
    /\ UNCHANGED should_flip

\* TileClicked, the move from the selection to the click is not legal
IllegalMove(raw, selected_pos, pos) ==
    /\ last' = Ev("TileClicked", raw, "illegal")
    /\ UNCHANGED <<board, images, selected, on_check, should_flip, plies>>

Select_SnapshotShouldFlip(raw, pos) ==
    /\ selected' = Some(<<pos, should_flip>>)
    /\ last' = Ev("TileClicked", raw, "select")
    /\ UNCHANGED <<board, images, on_check, should_flip, plies>>

\* TileClicked, no selection exists and the click is on an own piece
Select(raw, pos) ==
    /\ selected' = Some(<<pos, should_flip /\ side_to_move(board) = Black>>)
    /\ last' = Ev("TileClicked", raw, "select")
    /\ UNCHANGED <<board, images, on_check, should_flip, plies>>

Inert_Selects(raw) ==
    /\ selected' = Some(<<DecodePos(raw), should_flip /\ side_to_move(board) = Black>>)
    /\ last' = Ev("TileClicked", raw, "inert")
    /\ UNCHANGED <<board, images, on_check, should_flip, plies>>

\* TileClicked, no selection exists and the click is not on an own piece
Inert(raw) ==
    /\ last' = Ev("TileClicked", raw, "inert")
    /\ UNCHANGED <<board, images, selected, on_check, should_flip, plies>>

\* the process has not panicked: only then is Chess::event entered
Running == last.branch # "panic"

\* the handler panicked: the process is gone and handles no further event
Panic(raw) ==
    /\ last' = Ev("TileClicked", raw, "panic")
    /\ UNCHANGED <<board, images, selected, on_check, should_flip, plies>>

\* ChessEvent::TileClicked(raw)
TileClicked(raw) ==
    LET pos == DecodePos(raw)
        sq == Square_new(as_u8(pos))
        pos_board == from_square(sq)
        own == pos_board
                 = color_combined(board, side_to_move(board)) \cap pos_board
    IN /\ Running
       /\ before' = Snapshot
       /\ \/ shift_overflows(sq) /\ Panic(raw)
          \/ IF selected # None
             THEN LET selected_pos == selected[1][1]
                      flipped == should_flip /\ selected[1][2]
                  IN IF pos = selected_pos THEN Deselect(raw)
                     ELSE IF own THEN Reselect(raw, pos, flipped)
                     ELSE LET to == to_square(pos_board)
                              from == Square_new(as_u8(selected_pos))
                          IN IF legal(board, from, to)
                             THEN MakeMove(raw, from, to)
                             ELSE IllegalMove(raw, from, to)
             ELSE IF own THEN Select(raw, pos) ELSE Inert(raw)

ToggleFlipping_NoUpdate ==
    /\ Running
    /\ should_flip' = (should_flip # TRUE)
    /\ last' = Ev("ToggleFlipping", -1, "toggle")
    /\ before' = Snapshot
    /\ UNCHANGED <<board, images, on_check, selected, plies>>

ToggleFlipping_ReverseInPlace ==
    /\ Running
    /\ should_flip' = (should_flip # TRUE)
    /\ images' = IF should_flip' /\ side_to_move(board) = Black
                 THEN [i \in 1..Len(images) |-> images[Len(images) + 1 - i]]
                 ELSE images
    /\ on_check' = update_board_on_check(board, should_flip')
    /\ last' = Ev("ToggleFlipping", -1, "toggle")
    /\ before' = Snapshot
    /\ UNCHANGED <<board, selected, plies>>

ToggleFlipping_SetsTrue ==
    /\ Running
    /\ should_flip' = TRUE
    /\ images' = update_board_images(board, should_flip')
    /\ on_check' = update_board_on_check(board, should_flip')
    /\ last' = Ev("ToggleFlipping", -1, "toggle")
    /\ before' = Snapshot
    /\ UNCHANGED <<board, selected, plies>>

ToggleFlipping_StaleCheck ==
    /\ Running
    /\ should_flip' = (should_flip # TRUE)
    /\ images' = update_board_images(board, should_flip')
    /\ last' = Ev("ToggleFlipping", -1, "toggle")
    /\ before' = Snapshot
    /\ UNCHANGED <<board, on_check, selected, plies>>

\* ChessEvent::ToggleFlipping
ToggleFlipping ==
    /\ Running
    /\ should_flip' = (should_flip # TRUE)
    /\ images' = update_board_images(board, should_flip')
    /\ on_check' = update_board_on_check(board, should_flip')
    /\ last' = Ev("ToggleFlipping", -1, "toggle")
    /\ before' = Snapshot
    /\ UNCHANGED <<board, selected, plies>>

Reset_KeepsSelection ==
    /\ Running
    /\ board' = BoardDefault
    /\ images' = update_board_images(board', should_flip)
    /\ on_check' = update_board_on_check(board', should_flip)
    /\ plies' = 0
    /\ last' = Ev("Reset", -1, "reset")
    /\ before' = Snapshot
    /\ UNCHANGED <<selected, should_flip>>

\* ChessEvent::Reset
Reset ==
    /\ Running
    /\ board' = BoardDefault
    /\ images' = update_board_images(board', should_flip)
    /\ on_check' = update_board_on_check(board', should_flip)
    /\ selected' = None
    /\ plies' = 0
    /\ last' = Ev("Reset", -1, "reset")
    /\ before' = Snapshot
    /\ UNCHANGED should_flip

Next ==
    \/ \E t \in Tiles : TileClicked(on_press(t[1], t[2]))
    \/ ToggleFlipping
    \/ Reset

Spec == Init /\ [][Next]_vars

\* positions outside 0..63 that the i32 of ChessEvent::TileClicked can carry
RawOutOfRange == {-244, 268, 332}

\* ChessEvent::TileClicked with a position no tile emits
TileClickedOutOfRange == \E raw \in RawOutOfRange : TileClicked(raw)

NextAnyRaw == Next \/ TileClickedOutOfRange

\* the handler under every i32 position, not only those the tiles emit
SpecAnyRaw == Init /\ [][NextAnyRaw]_vars

(* ------------------- the bindings of the 64 tiles ----------------------- *)

Coords == (0..7) \X (0..7)

\* .image(...): the sprite tile (x, y) shows, given the images field
image(imgs, x, y) == imgs[(y * 8 + x) + 1]

\* .checked(...): the selected flag of tile (x, y), given the selected field
checked(value, x, y) ==
    IF value = None THEN FALSE
    ELSE IF value[1][2] THEN value[1][1] = 63 - ((7 - y) * 8 + x)
    ELSE value[1][1] = (7 - y) * 8 + x

\* .toggle_class("on-check", ...): the in-check flag of tile (x, y), given
\* the on_check field
on_check_class(value, x, y) ==
    IF value = None THEN FALSE
    ELSE IF value[1][2] THEN value[1][1] = 63 - ((7 - y) * 8 + x)
    ELSE value[1][1] = (7 - y) * 8 + x

(* ------------------------------ properties ------------------------------ *)

\* the logical square a click on raw position r addresses in the state s
LogicalOf(s, r) ==
    IF s.should_flip /\ s.board.stm = "Black" THEN 63 - r ELSE r

\* square q of the state s holds a piece of the side to move
OwnAt(s, q) == ColorOf(s.board.pieces[q]) = s.board.stm

\* the last event was a click made while a square was selected
ClickOnSelection == last.ev = "TileClicked" /\ before.selected # None

SelPos == before.selected[1][1]

Target == LogicalOf(before, last.pos)

\* the click was an attempt to move the selected piece
MoveAttempt ==
    ClickOnSelection /\ Target # SelPos /\ ~OwnAt(before, Target)

SameView ==
    /\ board = before.board
    /\ should_flip = before.should_flip
    /\ images = before.images
    /\ on_check = before.on_check

\* C1: a click that attempts an illegal move from the selected square leaves
\* board, selection, should_flip, images and on_check as they were.
C1_IllegalMoveIsNoOp ==
    (MoveAttempt /\ ~legal(before.board, SelPos, Target))
        => (SameView /\ selected = before.selected)

C1_Witness ==
    /\ MoveAttempt
    /\ ~legal(before.board, SelPos, Target)
    /\ last.branch = "illegal"
    /\ selected # None

\* C2: a click that attempts a legal move from the selected square replaces
\* the board by the result of that one move, clears the selection and keeps
\* should_flip; clicking 12 and then 28 from the start plays the pawn from
\* 12 to 28.
C2_LegalMoveIsApplied ==
    /\ (MoveAttempt /\ legal(before.board, SelPos, Target))
          => /\ board = make_move_new(before.board, SelPos, Target)
             /\ selected = None
             /\ should_flip = before.should_flip
    /\ (/\ last.ev = "TileClicked" /\ last.pos = 28
        /\ before.board = BoardDefault
        /\ before.selected = Some(<<12, FALSE>>))
          => /\ board.pieces = [BoardDefault.pieces EXCEPT ![12] = "", ![28] = "P"]
             /\ board.stm = "Black"
             /\ selected = None

C2_Witness ==
    /\ last.ev = "TileClicked" /\ last.pos = 28 /\ last.branch = "move"
    /\ before.board = BoardDefault
    /\ before.selected = Some(<<12, FALSE>>)
    /\ board.pieces[28] = "P"

\* C3: in every step the new board is the old board, or the initial position
\* after a Reset, or the result of a move from the selected square that the
\* rules engine reports legal on the old board; ToggleFlipping keeps the board.
C3_BoardChangesOnlyByLegalMoveOrReset ==
    [][/\ \/ board' = board
          \/ last'.ev = "Reset" /\ board' = BoardDefault
          \/ /\ selected # None
             /\ \E t \in Squares :
                   /\ legal(board, selected[1][1], t)
                   /\ board' = make_move_new(board, selected[1][1], t)
       /\ last'.ev = "ToggleFlipping" => board' = board]_vars

C3_Witness ==
    /\ last.branch = "move"
    /\ board # before.board
    /\ legal(before.board, SelPos, Target)

\* C4: with a selection, a click on another piece of the side to move makes
\* that square the selected one, keeps the board and takes the re-select
\* branch, in which no move is queried or applied.
C4_ReselectNeverMoves ==
    (ClickOnSelection /\ Target # SelPos /\ OwnAt(before, Target))
        => /\ selected # None
           /\ selected[1][1] = Target
           /\ board = before.board
           /\ last.branch = "reselect"

C4_Witness ==
    /\ ClickOnSelection /\ Target # SelPos /\ OwnAt(before, Target)
    /\ last.branch = "reselect"
    /\ selected[1][1] # SelPos

\* C5: with a selection at p, a click that decodes to p under the current
\* should_flip and side to move clears the selection and changes nothing
\* else, also when the flip setting was toggled after the selection was made.
C5_DeselectAnyOrientation ==
    (ClickOnSelection /\ Target = SelPos) => (selected = None /\ SameView)

\* a deselect with Black to move whose selection was made under the other
\* flip setting
C5_Witness ==
    /\ ClickOnSelection /\ Target = SelPos
    /\ last.branch = "deselect"
    /\ before.board.stm = "Black"
    /\ before.selected[1][2] # before.should_flip

\* C6: whenever a square p is selected, the tiles whose selected flag is
\* true are exactly the tiles whose click decodes to p, which show the piece
\* standing on p.
C6_HighlightOnSelectedPiece ==
    selected # None =>
        \A c \in Coords :
            checked(selected, c[1], c[2])
                <=> (LogicalOf(Snapshot, on_press(c[1], c[2])) = selected[1][1])

\* C7: on_check is Some exactly when the side to move is in check, and then
\* holds that side's king square and (should_flip and Black to move).
C7_CheckIndicatorNeverStale ==
    /\ (on_check # None) <=> (checkers(board) # {})
    /\ on_check # None =>
          /\ board.pieces[on_check[1][1]] = (IF board.stm = "White" THEN "K" ELSE "k")
          /\ on_check[1][2] = (should_flip /\ board.stm = "Black")

\* the side to move is in check after the flip setting was toggled
C7_Witness ==
    /\ on_check # None
    /\ checkers(board) # {}
    /\ last.ev = "ToggleFlipping"

\* the sprites of the starting position, a8 first
InitialSprites ==
    <<"r", "n", "b", "q", "k", "b", "n", "r">>
    \o [i \in 1..8 |-> "p"] \o [i \in 1..32 |-> ""] \o [i \in 1..8 |-> "P"]
    \o <<"R", "N", "B", "Q", "K", "B", "N", "R">>

\* C8: after a Reset the board is the initial position, nothing is selected,
\* on_check is None, images shows the initial position and should_flip is
\* what it was.
C8_ResetRestores ==
    last.ev = "Reset" =>
        /\ board = BoardDefault
        /\ selected = None
        /\ on_check = None
        /\ images = InitialSprites
        /\ should_flip = before.should_flip

\* a Reset of a game in which moves, a selection and a toggle were made
C8_Witness ==
    /\ last.ev = "Reset"
    /\ before.board # BoardDefault
    /\ before.selected # None
    /\ ~before.should_flip

\* C9: the second of two consecutive ToggleFlipping events gives back the
\* should_flip, images, selected flags and in-check flags that held before
\* the first, with board and selection unchanged.
C9_ToggleTwiceIsIdentity ==
    [][(last.ev = "ToggleFlipping" /\ last'.ev = "ToggleFlipping")
          => /\ should_flip' = before.should_flip
             /\ images' = before.images
             /\ \A c \in Coords :
                   /\ checked(selected', c[1], c[2])
                        = checked(before.selected, c[1], c[2])
                   /\ on_check_class(on_check', c[1], c[2])
                        = on_check_class(before.on_check, c[1], c[2])
             /\ board' = before.board
             /\ selected' = before.selected]_vars

\* two toggles in a row with Black to move, in check, and a piece selected
C9_Witness ==
    /\ last.ev = "ToggleFlipping" /\ last.prior = "ToggleFlipping"
    /\ board.stm = "Black"
    /\ on_check # None
    /\ selected # None

\* C10: ToggleFlipping inverts should_flip and keeps board and selection.
C10_ToggleFrame ==
    last.ev = "ToggleFlipping" =>
        /\ should_flip = ~before.should_flip
        /\ board = before.board
        /\ selected = before.selected

C10_Witness ==
    /\ last.ev = "ToggleFlipping"
    /\ selected # None
    /\ should_flip = ~before.should_flip

\* C11: with nothing selected, a click on an empty square or on a piece of
\* the side not to move leaves the selection None and changes nothing else.
C11_InertClickIsNoOp ==
    (last.ev = "TileClicked" /\ before.selected = None /\ ~OwnAt(before, Target))
        => (selected = None /\ SameView)

\* an inert click on a piece of the side not to move
C11_Witness ==
    /\ last.ev = "TileClicked" /\ before.selected = None
    /\ last.branch = "inert"
    /\ ColorOf(before.board.pieces[Target]) = Other(before.board.stm)
    /\ selected = None

\* C12: a selected square always holds a piece of the side to move.
C12_SelectionOnOwnPiece ==
    selected # None =>
        /\ selected[1][1] \in Squares
        /\ ColorOf(board.pieces[selected[1][1]]) = board.stm

\* a black piece is selected after moves were made
C12_Witness ==
    /\ selected # None
    /\ board.stm = "Black"
    /\ ColorOf(board.pieces[selected[1][1]]) = "Black"
    /\ board # BoardDefault

\* the click re-selects: a selection exists and the click is on another
\* piece of the side to move
ReselectClick == ClickOnSelection /\ Target # SelPos /\ OwnAt(before, Target)

\* C13 as claimed: a re-select stores the clicked square with the flip
\* snapshot of the selection it replaces, whatever should_flip is.
C13_ReselectKeepsSnapshot ==
    ReselectClick => selected = Some(<<Target, before.selected[1][2]>>)

\* C13 as amended: a re-select stores the clicked square with
\* (should_flip AND the flip snapshot of the selection it replaces).
C13_ReselectSnapshotIsEffectiveFlip ==
    ReselectClick =>
        selected = Some(<<Target, before.should_flip /\ before.selected[1][2]>>)

\* a re-select of a selection made flipped, after flipping was switched off
C13_Witness ==
    /\ ReselectClick
    /\ last.branch = "reselect"
    /\ before.selected[1][2]
    /\ ~before.should_flip
    /\ selected # None /\ ~selected[1][2]

\* C14: with nothing selected, a click on raw position r addresses 63 - r
\* when should_flip holds and Black is to move and r otherwise; when that
\* square holds a piece of the side to move it becomes the selection, with
\* the snapshot (should_flip AND Black to move), and the board is unchanged.
C14_SelectionCreation ==
    (/\ last.ev = "TileClicked" /\ before.selected = None
     /\ OwnAt(before, IF before.should_flip /\ before.board.stm = "Black"
                      THEN 63 - last.pos ELSE last.pos))
        => /\ selected
                = Some(<<IF before.should_flip /\ before.board.stm = "Black"
                         THEN 63 - last.pos ELSE last.pos,
                         before.should_flip /\ before.board.stm = "Black">>)
           /\ board = before.board

\* a black piece selected through the flipped board
C14_Witness ==
    /\ last.ev = "TileClicked" /\ before.selected = None
    /\ last.branch = "select"
    /\ before.should_flip /\ before.board.stm = "Black"
    /\ selected = Some(<<63 - last.pos, TRUE>>)

\* the piece placement of board b in rank order, a8 first and h1 last
Placement(b) ==
    [i \in 1..64 |-> b.pieces[(7 - ((i - 1) \div 8)) * 8 + ((i - 1) % 8)]]

Flipped == should_flip /\ board.stm = "Black"

\* C15: images is the rank-ordered placement of the current board, reversed
\* end to end exactly when should_flip holds and Black is to move; it has 64
\* entries, as many of them non-empty as there are pieces on the board.
C15_SpritesNeverStale ==
    /\ images = IF Flipped THEN [i \in 1..64 |-> Placement(board)[65 - i]]
                ELSE Placement(board)
    /\ Len(images) = 64
    /\ Cardinality({i \in 1..Len(images) : images[i] # ""})
         = Cardinality({s \in Squares : board.pieces[s] # ""})

\* the reversed sprites of a position in which a piece was captured
C15_Witness ==
    /\ Flipped
    /\ images = [i \in 1..64 |-> Placement(board)[65 - i]]
    /\ images # Placement(board)
    /\ Cardinality({i \in 1..Len(images) : images[i] # ""}) < 32

\* C16: every tile shows the piece standing on the square that a click on
\* that tile addresses under the current should_flip and side to move.
C16_TileShowsWhatItAddresses ==
    \A c \in Coords :
        image(images, c[1], c[2])
            = board.pieces[LogicalOf(Snapshot, on_press(c[1], c[2]))]

\* the flipped board: the top left tile addresses h1 and shows its rook
C16_Witness ==
    /\ Flipped
    /\ LogicalOf(Snapshot, on_press(0, 0)) = 7
    /\ image(images, 0, 0) = "R"
    /\ last.ev = "TileClicked"

\* C17: when the side to move is in check exactly one tile has the in-check
\* flag, the tile showing that side's king; otherwise no tile has it.
C17_CheckHighlightOnKing ==
    \A c \in Coords :
        on_check_class(on_check, c[1], c[2])
            <=> /\ checkers(board) # {}
                /\ image(images, c[1], c[2])
                     = (IF board.stm = "White" THEN "K" ELSE "k")

\* Black is in check and flipping was switched off after the check was
\* given: the flag is on the tile of e8 in the unflipped board
C17_Witness ==
    /\ checkers(board) # {}
    /\ last.ev = "ToggleFlipping"
    /\ ~should_flip
    /\ on_check_class(on_check, 4, 0)
    /\ image(images, 4, 0) = "k"

\* C18: a click carrying a position outside 0..63 is rejected loudly while
\* it is decoded: the handler fails, and the position never reaches the
\* selection.
C18_OutOfRangeRejected ==
    /\ (last.ev = "TileClicked" /\ last.pos \notin 0..63)
          => (last.branch = "panic" /\ selected = before.selected)
    /\ selected # None => selected[1][1] \in 0..63

\* C19: when every click carries a position in 0..63, the decoded click
\* position, the selected position and the on_check position are in 0..63,
\* and decoding a position twice gives it back.
C19_PositionsInRange ==
    /\ last.ev = "TileClicked" => LogicalOf(before, last.pos) \in 0..63
    /\ selected # None => selected[1][1] \in 0..63
    /\ on_check # None => on_check[1][1] \in 0..63
    /\ \A p \in 0..63 :
          /\ DecodePos(p) \in 0..63
          /\ DecodePos(DecodePos(p)) = p

\* a flipped board with a selection and a check indicator, after a click
C19_Witness ==
    /\ Flipped
    /\ DecodePos(0) = 63
    /\ last.ev = "TileClicked" /\ last.pos \in 0..63
    /\ selected # None /\ selected[1][1] \in 0..63
    /\ on_check # None /\ on_check[1][1] \in 0..63

====
